---- MODULE Spec2Model ----
(***************************************************************************)
(* A model of src/mod.ts (the current revision of the module, lines        *)
(* 139-332): the immutable StoreDefinition builder and the Store that      *)
(* lazily constructs, memoizes and disposes service instances.             *)
(*                                                                         *)
(* Factories and teardown functions are caller code.  A factory is a       *)
(* function object (an element of Fns) that, when invoked, throws, returns *)
(* a fresh object, or returns a fresh pending promise; which of these      *)
(* happens is chosen by the environment at each invocation.  The           *)
(* `transient` tag lives on the function object, as in the source.         *)
(***************************************************************************)
EXTENDS Integers, Sequences, FiniteSets, TLC

\* ---------------------------------------------------------------- bounds
MaxDefs == 1        \* definition handles the caller keeps
MaxStores == 3      \* stores ever finalized
MaxScopeStores == 2  \* stores of SpecScope and SpecBuild: a parent and a child
MaxBranchDefs == 2   \* definition handles of SpecBranch: two branches
MaxBranchGets == 2   \* get calls in SpecSiblings: one on each sibling store
MaxVals == 3        \* values (objects and promises) ever constructed
MaxGets == 3        \* top-level get calls
MaxDisposals == 2   \* disposal calls (sync and async together)
MaxScopeDisposals == 1  \* disposal calls in SpecScope and SpecDispose
MaxBuildGets == 1    \* get calls of the builder's caller (SpecBuild)
\* get calls made before a disposal in SpecDispose: one for each name
MaxDisposeGets == 2

Names == {"A", "B"}
Fns == {"f", "g"}
Caps == {"dispose", "asyncDispose"}
\* A key every plain object inherits from Object.prototype: `"toString" in {}`
ProtoNames == {"toString"}

VARIABLES
  defs,       \* the caller's StoreDefinition handles
  stores,     \* every Store, by identity (index)
  transient,  \* the `transient` property of each factory function object
  heap,       \* every value a factory or an async construction produced
  disposals,  \* every disposal call and what it did
  gets,       \* gets[s][n]: number of get(n) calls received by store s
  calls,      \* calls[s][n]: number of factory invocations by store s for n
  rets,       \* rets[s][n]: what get(n) on store s has returned
  failed,     \* failed[s][n]: a construction by store s for n threw or rejected
  ngets,      \* top-level get calls so far
  last        \* the last operation and how it ended

vars == <<defs, stores, transient, heap, disposals, gets, calls, rets, failed, ngets, last>>

\* ------------------------------------------------------------ data model
NoBinding == [fn |-> "none", reg |-> "none"]
Binding(fn, reg) == [fn |-> fn, reg |-> reg]
NoFactories == [n \in Names |-> NoBinding]

\* `name in this.#factories`: the factories object is a plain object, so the
\* `in` operator also finds the keys it inherits.
InFactories(factories, n) == n \in ProtoNames \/ factories[n].fn # "none"

StoreIds == 1..Len(stores)

\* `name in this.#memoizedValues`: own keys and, the memo being a plain
\* object, the keys it inherits.
InMemo(memo, n) == n \in ProtoNames \/ \E i \in 1..Len(memo) : memo[i].name = n
\* `this.#memoizedValues[name]`: for an inherited key a method of
\* Object.prototype, whose `promisify` and `value` are undefined (value 0).
MemoEntry(memo, n) ==
  IF n \in ProtoNames THEN [name |-> n, promisify |-> FALSE, value |-> 0]
  ELSE memo[CHOOSE i \in 1..Len(memo) : memo[i].name = n]

\* `this.#memoizedValues[name] = entry`: an existing key keeps its place in
\* the iteration order, a new key goes last.
MemoSet(memo, e) ==
  IF InMemo(memo, e.name)
  THEN [i \in 1..Len(memo) |-> IF memo[i].name = e.name THEN e ELSE memo[i]]
  ELSE Append(memo, e)

\* (variant: the entry is left in place)
MemoDeleteKeeps(memo, n) == memo

\* `delete this.#memoizedValues[name]`
MemoDelete(memo, n) == SelectSeq(memo, LAMBDA e : e.name # n)

\* What get returned: the value itself, or `Promise.resolve(entry.value)`, a
\* fresh promise already resolved with the value.  NoRet: nothing returned.
Ret(v, fresh) == [val |-> v, fresh |-> fresh]
NoRet == Ret(0, FALSE)

\* The record of the last operation: its name, the error it threw ("none"
\* when it returned), for a get what it returned, and for add and
\* addTransient the receiver's handle and the name.
Ok(op) == [op |-> op, err |-> "none", ret |-> NoRet, a |-> 0, n |-> "-", yes |-> FALSE]
Returned(op, r) == [op |-> op, err |-> "none", ret |-> r, a |-> 0, n |-> "-", yes |-> FALSE]
Err(op, e) == [op |-> op, err |-> e, ret |-> NoRet, a |-> 0, n |-> "-", yes |-> FALSE]
\* has(name) on store s answered b
Answered(s, n, b) == [Ok("has") EXCEPT !.a = s, !.n = n, !.yes = b]
On(r, i, n) == [r EXCEPT !.a = i, !.n = n]

\* Store.has
RECURSIVE Has(_, _)
Has(s, n) ==
  InFactories(stores[s].factories, n)
    \/ (IF stores[s].parent # 0 THEN Has(stores[s].parent, n) ELSE FALSE)

\* `this.#parentStore?.has(name)`
ParentHas(parent, n) == IF parent # 0 THEN Has(parent, n) ELSE FALSE

Init ==
  /\ defs = <<>>
  /\ stores = <<>>
  /\ transient = [f \in Fns |-> FALSE]
  /\ heap = <<>>
  /\ disposals = <<>>
  /\ gets = [s \in 1..MaxStores |-> [n \in Names |-> 0]]
  /\ calls = [s \in 1..MaxStores |-> [n \in Names |-> 0]]
  /\ rets = [s \in 1..MaxStores |-> [n \in Names |-> {}]]
  /\ failed = [s \in 1..MaxStores |-> [n \in Names |-> FALSE]]
  /\ ngets = 0
  /\ last = Ok("init")

\* ------------------------------------------------------ StoreDefinition
\* The caller keeps the returned definition in one of its MaxDefs handles.
Keep(j, d) ==
  IF j <= Len(defs) THEN [defs EXCEPT ![j] = d] ELSE Append(defs, d)
Handles == 1..(IF Len(defs) < MaxDefs THEN Len(defs) + 1 ELSE MaxDefs)

StoreState == <<stores, heap, disposals, gets, calls, rets, failed, ngets>>

\* defineStore()
DefineStore(j) ==
  /\ defs' = Keep(j, [factories |-> NoFactories, parent |-> 0])
  /\ last' = Ok("defineStore")
  /\ UNCHANGED <<transient, StoreState>>

\* new StoreDefinition(factories, parentStore), called with two arguments
NewStoreDefinition(j, n, f, p) ==
  /\ defs' = Keep(j, [factories |-> [NoFactories EXCEPT ![n] = Binding(f, "ctor")],
                      parent |-> p])
  /\ last' = Ok("new")
  /\ UNCHANGED <<transient, StoreState>>

\* StoreDefinition.add: the duplicate check of the definition d
AddRejects(d, n) == InFactories(d.factories, n) \/ ParentHas(d.parent, n)

\* StoreDefinition.add: the definition it returns
AddResult(d, n, f, reg) ==
  [factories |-> [d.factories EXCEPT ![n] = Binding(f, reg)], parent |-> d.parent]

\* StoreDefinition.addTransient: the tag it puts on the function object
TagTransient(f) == [transient EXCEPT ![f] = TRUE]

\* d.add(name, value), the result kept in handle j
Add(i, j, n, f) ==
  /\ i \in 1..Len(defs)
  /\ IF AddRejects(defs[i], n)
     THEN /\ last' = On(Err("add", "DuplicateBinding"), i, n)
          /\ UNCHANGED defs
     ELSE /\ defs' = Keep(j, AddResult(defs[i], n, f, "add"))
          /\ last' = On(Ok("add"), i, n)
  /\ UNCHANGED <<transient, StoreState>>

\* d.addTransient(name, value), the result kept in handle j
AddTransient(i, j, n, f) ==
  /\ i \in 1..Len(defs)
  /\ transient' = TagTransient(f)
  /\ IF AddRejects(defs[i], n)
     THEN /\ last' = On(Err("addTransient", "DuplicateBinding"), i, n)
          /\ UNCHANGED defs
     ELSE /\ defs' = Keep(j, AddResult(defs[i], n, f, "addTransient"))
          /\ last' = On(Ok("addTransient"), i, n)
  /\ UNCHANGED StoreState

\* d.override(name, value): StoreDefinition declares add, addTransient and
\* finalize only, so `d.override` is undefined and calling it throws a
\* TypeError before anything is read or written.
Override(i, j, n, f) ==
  /\ i \in 1..Len(defs)
  /\ last' = On(Err("override", "TypeError"), i, n)
  /\ UNCHANGED <<defs, transient, StoreState>>

\* d.finalize().  The definition is left alone; what becomes of the caller's
\* handle is the caller's business (Retain, Release).
Finalize(i) ==
  /\ i \in 1..Len(defs)
  /\ Len(stores) < MaxStores
  /\ stores' = Append(stores, [factories |-> defs[i].factories,
                               parent |-> defs[i].parent,
                               memo |-> <<>>])
  /\ last' = Ok("finalize")
  /\ UNCHANGED <<transient, heap, disposals, gets, calls, rets, failed, ngets>>

\* The caller keeps its handles after a call.
Retain == UNCHANGED defs
\* The caller finalizes at the end of a chained expression and keeps no
\* handle to the definition.
Release == defs' = <<>>

\* store.createChild()
CreateChild(s, j) ==
  /\ s \in StoreIds
  /\ defs' = Keep(j, [factories |-> NoFactories, parent |-> s])
  /\ last' = Ok("createChild")
  /\ UNCHANGED <<transient, StoreState>>

\* ---------------------------------------------------------------- values
\* A fresh object a factory (or an asynchronous construction) produced.
\* caps: the teardown capabilities it exposes; bad: its teardown functions
\* throw when invoked.
NewObj(caps, bad, s, n, f) ==
  [kind |-> "obj", caps |-> caps, bad |-> bad, st |-> "value", res |-> 0,
   cont |-> "none", nd |-> 0, nad |-> 0, store |-> s, name |-> n, fn |-> f]

\* A fresh pending promise a factory returned.  cont is the progress of the
\* continuations Store.get attached with `value.then(..).catch(..)`:
\* "waiting" until the promise settles, "then" while the then-reaction is
\* queued, "catch" while the catch-reaction is queued, "done" afterwards,
\* and "none" for a promise Store.get attached nothing to.
NewPromise(cont, s, n, f) ==
  [kind |-> "promise", caps |-> {}, bad |-> FALSE, st |-> "pending", res |-> 0,
   cont |-> cont, nd |-> 0, nad |-> 0, store |-> s, name |-> n, fn |-> f]

\* What a factory does when it is invoked.
Outcomes ==
  {[kind |-> "throw", caps |-> {}, bad |-> FALSE],
   [kind |-> "promise", caps |-> {}, bad |-> FALSE]}
    \cup [kind : {"obj"}, caps : SUBSET Caps, bad : BOOLEAN]

\* ---------------------------------------------------------------- Store.get
\* (variant: the parent chain is asked first)
RECURSIVE TargetParentFirst(_, _)
TargetParentFirst(s, n) ==
  IF ParentHas(stores[s].parent, n) THEN TargetParentFirst(stores[s].parent, n)
  ELSE IF InMemo(stores[s].memo, n) \/ InFactories(stores[s].factories, n) THEN s
  ELSE 0

\* The store of the chain that answers get(n) called on s: the first one that
\* has a memo entry or a factory for n; 0 when the get throws.
RECURSIVE Target(_, _)
Target(s, n) ==
  IF InMemo(stores[s].memo, n) THEN s
  ELSE IF ~InFactories(stores[s].factories, n)
       THEN IF ParentHas(stores[s].parent, n)
            THEN Target(stores[s].parent, n)
            ELSE 0
       ELSE s

\* The stores whose get is called, from s down to the one that answers.
RECURSIVE Visited(_, _)
Visited(s, n) ==
  {s} \cup
    (IF ~InMemo(stores[s].memo, n) /\ ~InFactories(stores[s].factories, n)
        /\ ParentHas(stores[s].parent, n)
     THEN Visited(stores[s].parent, n)
     ELSE {})

\* (variant: the tag is ignored)
IsTransientNever(f) == FALSE

\* `(factory as any).transient`
IsTransient(f) == transient[f]

\* (variant: the store the caller asked keeps the entry)
MemoStoreAsked(s, t) == s

\* The store whose memo get writes, for a get the caller made on s and the
\* store t answers: `this.#memoizedValues` of the store that ran the factory.
MemoStore(s, t) == t

\* The memo entry get writes for a value its singleton factory returned.
ConstructedEntry(n, v) == [name |-> n, promisify |-> FALSE, value |-> v]

\* What get returns for an existing memo entry.
MemoizedRet(e) == IF e.promisify THEN Ret(e.value, TRUE) ELSE Ret(e.value, FALSE)

Bump(cnt, ss, n) ==
  [s \in 1..MaxStores |->
     [m \in Names |-> IF s \in ss /\ m = n THEN cnt[s][m] + 1 ELSE cnt[s][m]]]
Record(rs, ss, n, r) ==
  [s \in 1..MaxStores |->
     [m \in Names |-> IF s \in ss /\ m = n THEN rs[s][m] \cup {r} ELSE rs[s][m]]]

\* store.get(name) called by the caller on store s; out is what the factory
\* does in case get invokes it.
Get(s, n, out) ==
  /\ s \in StoreIds
  /\ ngets < MaxGets
  /\ ngets' = ngets + 1
  /\ LET t == Target(s, n)
         vis == Visited(s, n)
     IN
     /\ gets' = Bump(gets, vis, n)
     /\ IF t = 0
        THEN /\ last' = Err("get", "UnknownBinding")
             /\ UNCHANGED <<stores, heap, calls, rets, failed>>
        ELSE IF InMemo(stores[t].memo, n)
        THEN /\ rets' = Record(rets, vis, n, MemoizedRet(MemoEntry(stores[t].memo, n)))
             /\ last' = Returned("get", MemoizedRet(MemoEntry(stores[t].memo, n)))
             /\ UNCHANGED <<stores, heap, calls, failed>>
        ELSE LET f == stores[t].factories[n].fn
                 v == Len(heap) + 1
             IN
             /\ calls' = Bump(calls, {t}, n)
             /\ IF out.kind = "throw"
                THEN /\ failed' = [failed EXCEPT ![t][n] = TRUE]
                     /\ last' = Err("get", "ConstructionFailure")
                     /\ UNCHANGED <<stores, heap, rets>>
                ELSE /\ Len(heap) < MaxVals
                     /\ rets' = Record(rets, vis, n, Ret(v, FALSE))
                     /\ last' = Returned("get", Ret(v, FALSE))
                     /\ UNCHANGED failed
                     /\ IF IsTransient(f)
                        THEN /\ heap' = Append(heap,
                                  IF out.kind = "promise"
                                  THEN NewPromise("none", t, n, f)
                                  ELSE NewObj(out.caps, out.bad, t, n, f))
                             /\ UNCHANGED stores
                        ELSE /\ heap' = Append(heap,
                                  IF out.kind = "promise"
                                  THEN NewPromise("waiting", t, n, f)
                                  ELSE NewObj(out.caps, out.bad, t, n, f))
                             /\ stores' = [stores EXCEPT ![MemoStore(s, t)].memo =
                                             MemoSet(@, ConstructedEntry(n, v))]
  /\ UNCHANGED <<defs, transient, disposals>>

\* store.has(name) called by the caller on store s
HasCall(s, n) ==
  /\ s \in StoreIds
  /\ last' = Answered(s, n, Has(s, n))
  /\ UNCHANGED <<defs, stores, transient, heap, disposals, gets, calls, rets, failed, ngets>>

\* store.get(name) for a key the memo inherits from Object.prototype: the
\* memo branch of get, which returns `entry.value` of the inherited method.
GetInherited(s, n) ==
  /\ s \in StoreIds
  /\ n \in ProtoNames
  /\ ngets < MaxGets
  /\ ngets' = ngets + 1
  /\ InMemo(stores[s].memo, n)
  /\ last' = On(Returned("get", MemoizedRet(MemoEntry(stores[s].memo, n))), s, n)
  /\ UNCHANGED <<defs, stores, transient, heap, disposals, gets, calls, rets, failed>>

\* The promise a factory returned settles: it is fulfilled with a fresh
\* object, or it is rejected.  The reactions registered on it are queued.
Settle(p, ok, caps, bad) ==
  /\ p \in 1..Len(heap)
  /\ heap[p].kind = "promise"
  /\ heap[p].st = "pending"
  /\ LET q == [heap[p] EXCEPT !.cont = IF @ = "waiting" THEN "then" ELSE @]
         v == Len(heap) + 1
     IN
     IF ok
     THEN /\ Len(heap) < MaxVals
          /\ heap' = Append([heap EXCEPT ![p] = [q EXCEPT !.st = "fulfilled", !.res = v]],
                            NewObj(caps, bad, q.store, q.name, q.fn))
          /\ UNCHANGED failed
     ELSE /\ heap' = [heap EXCEPT ![p] = [q EXCEPT !.st = "rejected"]]
          /\ failed' = [failed EXCEPT ![q.store][q.name] = TRUE]
  /\ last' = Ok("settle")
  /\ UNCHANGED <<defs, stores, transient, disposals, gets, calls, rets, ngets>>

\* (variant: the entry is written without the marker)
ResolvedEntryUnmarked(n, v) == [name |-> n, promisify |-> FALSE, value |-> v]

\* The memo entry the then-callback of get writes.
ResolvedEntry(n, v) == [name |-> n, promisify |-> TRUE, value |-> v]

\* The then-reaction get attached runs: on fulfilment its callback replaces
\* the memo entry by the resolved marker; a rejection passes through to the
\* promise `then` returned, which queues the catch-reaction.
RunThen(p) ==
  /\ p \in 1..Len(heap)
  /\ heap[p].cont = "then"
  /\ IF heap[p].st = "fulfilled"
     THEN /\ stores' = [stores EXCEPT ![heap[p].store].memo =
                          MemoSet(@, ResolvedEntry(heap[p].name, heap[p].res))]
          /\ heap' = [heap EXCEPT ![p].cont = "done"]
     ELSE /\ heap' = [heap EXCEPT ![p].cont = "catch"]
          /\ UNCHANGED stores
  /\ last' = Ok("then")
  /\ UNCHANGED <<defs, transient, disposals, gets, calls, rets, failed, ngets>>

\* The catch-reaction get attached runs: it removes the memo entry.
RunCatch(p) ==
  /\ p \in 1..Len(heap)
  /\ heap[p].cont = "catch"
  /\ stores' = [stores EXCEPT ![heap[p].store].memo = MemoDelete(@, heap[p].name)]
  /\ heap' = [heap EXCEPT ![p].cont = "done"]
  /\ last' = Ok("catch")
  /\ UNCHANGED <<defs, transient, disposals, gets, calls, rets, failed, ngets>>

\* ---------------------------------------------------------------- disposal
\* A disposal call is recorded with what its loop did to each memo entry, in
\* iteration order (act: "dispose", "asyncDispose", "skip" for a value with no
\* capability, "raise" for the entry the loop threw at without a teardown
\* call, "unreached" for the entries after the one the loop stopped at), the
\* asynchronous teardowns it started (tds) and how the call ended.
LogEntry(e, act) == [name |-> e.name, val |-> e.value, act |-> act]
Unreached(memo, i) == [k \in 1..(Len(memo) - i) |-> LogEntry(memo[i + k], "unreached")]

\* `value[Symbol.dispose] instanceof Function`
HasDispose(h, v) == "dispose" \in h[v].caps
\* (variant: the asynchronous capability is never seen)
HasAsyncDisposeNever(h, v) == FALSE
\* `value[Symbol.asyncDispose] instanceof Function`
HasAsyncDispose(h, v) == "asyncDispose" \in h[v].caps

CallDispose(h, v) == [h EXCEPT ![v].nd = @ + 1]
CallAsyncDispose(h, v) == [h EXCEPT ![v].nad = @ + 1]

\* The names in a fixed order (for the variant below).
RECURSIVE SeqOf(_)
SeqOf(S) == IF S = {} THEN <<>> ELSE LET x == CHOOSE y \in S : TRUE IN <<x>> \o SeqOf(S \ {x})

\* (variant: the loop walks the declared bindings, taking for a binding that
\* was never requested the first value of the heap)
DisposalEntriesDeclared(s) ==
  LET declared == SelectSeq(SeqOf(Names), LAMBDA n : InFactories(stores[s].factories, n))
  IN IF heap = <<>> THEN stores[s].memo
     ELSE [i \in 1..Len(declared) |->
             IF InMemo(stores[s].memo, declared[i])
             THEN MemoEntry(stores[s].memo, declared[i])
             ELSE [name |-> declared[i], promisify |-> FALSE, value |-> 1]]

\* `Object.values(this.#memoizedValues)`: the entries a disposal of store s
\* iterates, in order.
DisposalEntries(s) == stores[s].memo

\* (variant: the loop looks through a fulfilled promise at its result)
EntryValueAwaited(h, e) ==
  IF h[e.value].kind = "promise" /\ h[e.value].res # 0 THEN h[e.value].res ELSE e.value

\* `const { value } of ...`: the value of a memo entry as the loops see it,
\* the promise itself for an entry that holds a promise.
EntryValue(h, e) == e.value

\* Store[Symbol.dispose]: the loop from entry i on, with heap h
RECURSIVE SyncLoop(_, _, _)
SyncLoop(memo, i, h) ==
  IF i > Len(memo)
  THEN [heap |-> h, log |-> <<>>, err |-> "none"]
  ELSE LET v == EntryValue(h, memo[i]) IN
       IF HasDispose(h, v)
       THEN IF h[v].bad
            THEN [heap |-> CallDispose(h, v),
                  log |-> <<LogEntry(memo[i], "dispose")>> \o Unreached(memo, i),
                  err |-> "TeardownError"]
            ELSE LET r == SyncLoop(memo, i + 1, CallDispose(h, v))
                 IN [r EXCEPT !.log = <<LogEntry(memo[i], "dispose")>> \o @]
       ELSE IF HasAsyncDispose(h, v)
       THEN [heap |-> h,
             log |-> <<LogEntry(memo[i], "raise")>> \o Unreached(memo, i),
             err |-> "SyncDisposeOfAsyncResource"]
       ELSE LET r == SyncLoop(memo, i + 1, h)
            IN [r EXCEPT !.log = <<LogEntry(memo[i], "skip")>> \o @]

\* (variant: the disposal empties the memo)
MemoAfterDisposalCleared(memo) == <<>>

\* The memo of a store once one of its disposal loops has run: both loops
\* only read `this.#memoizedValues`.
MemoAfterDisposal(memo) == memo

\* store[Symbol.dispose]()
Dispose(s) ==
  /\ s \in StoreIds
  /\ Len(disposals) < MaxDisposals
  /\ LET r == SyncLoop(DisposalEntries(s), 1, heap) IN
     /\ heap' = r.heap
     /\ disposals' = Append(disposals,
          [store |-> s, kind |-> "sync", log |-> r.log, tds |-> <<>>,
           status |-> IF r.err = "none" THEN "returned" ELSE "threw",
           err |-> r.err])
     /\ last' = Err("dispose", r.err)
  /\ stores' = [stores EXCEPT ![s].memo = MemoAfterDisposal(@)]
  /\ UNCHANGED <<defs, transient, gets, calls, rets, failed, ngets>>

\* Store[Symbol.asyncDispose]: the loop from entry i on, with heap h
RECURSIVE AsyncLoop(_, _, _)
AsyncLoop(memo, i, h) ==
  IF i > Len(memo)
  THEN [heap |-> h, log |-> <<>>, tds |-> <<>>, err |-> "none"]
  ELSE LET v == EntryValue(h, memo[i]) IN
       IF HasAsyncDispose(h, v)
       THEN IF h[v].bad
            THEN [heap |-> CallAsyncDispose(h, v),
                  log |-> <<LogEntry(memo[i], "asyncDispose")>> \o Unreached(memo, i),
                  tds |-> <<>>, err |-> "TeardownError"]
            ELSE LET r == AsyncLoop(memo, i + 1, CallAsyncDispose(h, v))
                 IN [r EXCEPT !.log = <<LogEntry(memo[i], "asyncDispose")>> \o @,
                              !.tds = <<[val |-> v, st |-> "pending"]>> \o @]
       ELSE IF HasDispose(h, v)
       THEN IF h[v].bad
            THEN [heap |-> CallDispose(h, v),
                  log |-> <<LogEntry(memo[i], "dispose")>> \o Unreached(memo, i),
                  tds |-> <<>>, err |-> "TeardownError"]
            ELSE LET r == AsyncLoop(memo, i + 1, CallDispose(h, v))
                 IN [r EXCEPT !.log = <<LogEntry(memo[i], "dispose")>> \o @]
       ELSE LET r == AsyncLoop(memo, i + 1, h)
            IN [r EXCEPT !.log = <<LogEntry(memo[i], "skip")>> \o @]

\* `await Promise.all(pendingPromises)`: how the disposal stands given the
\* state of the teardowns it awaits
AllStatus(tds) ==
  IF \E k \in 1..Len(tds) : tds[k].st = "rejected" THEN "rejected"
  ELSE IF \A k \in 1..Len(tds) : tds[k].st = "fulfilled" THEN "fulfilled"
  ELSE "pending"

\* store[Symbol.asyncDispose]()
AsyncDispose(s) ==
  /\ s \in StoreIds
  /\ Len(disposals) < MaxDisposals
  /\ LET r == AsyncLoop(DisposalEntries(s), 1, heap) IN
     /\ heap' = r.heap
     /\ disposals' = Append(disposals,
          [store |-> s, kind |-> "async", log |-> r.log, tds |-> r.tds,
           status |-> IF r.err = "none" THEN AllStatus(r.tds) ELSE "rejected",
           err |-> r.err])
     /\ last' = Err("asyncDispose", r.err)
  /\ stores' = [stores EXCEPT ![s].memo = MemoAfterDisposal(@)]
  /\ UNCHANGED <<defs, transient, gets, calls, rets, failed, ngets>>

\* The promise an asynchronous teardown returned settles.  A disposal that
\* is still pending is rejected by the first rejection and fulfilled once
\* every teardown is fulfilled.
SettleTeardown(d, k, ok) ==
  /\ d \in 1..Len(disposals)
  /\ k \in 1..Len(disposals[d].tds)
  /\ disposals[d].tds[k].st = "pending"
  /\ LET tds == [disposals[d].tds EXCEPT ![k].st = IF ok THEN "fulfilled" ELSE "rejected"]
     IN disposals' = [disposals EXCEPT
          ![d].tds = tds,
          ![d].status = IF @ = "pending" THEN AllStatus(tds) ELSE @,
          ![d].err = IF disposals[d].status = "pending" /\ ~ok THEN "TeardownError" ELSE @]
  /\ last' = Ok("settleTeardown")
  /\ UNCHANGED <<defs, stores, transient, heap, gets, calls, rets, failed, ngets>>

\* ---------------------------------------------------------------- behaviour
\* Three callers exercise the module.  Each one uses the operations above
\* unchanged and differs only in the inputs it offers.
\*
\* Spec: one store built from one definition handle.  Either function may be
\* registered with add, the function "f" also with addTransient, at any time
\* (before or after finalize, before or after a get).  Factories throw,
\* return a plain object or return a promise that settles later.
PlainOutcomes == {o \in Outcomes : o.caps = {} /\ ~o.bad}

Next ==
  \/ DefineStore(1)
  \/ \E n \in Names, f \in Fns : Add(1, 1, n, f)
  \/ \E n \in Names : AddTransient(1, 1, n, "f")
  \/ Len(stores) < 1 /\ Finalize(1) /\ Release
  \/ \E n \in Names, out \in PlainOutcomes : Get(1, n, out)
  \/ \E p \in 1..Len(heap), ok \in BOOLEAN : Settle(p, ok, {}, FALSE)
  \/ \E p \in 1..Len(heap) : RunThen(p)
  \/ \E p \in 1..Len(heap) : RunCatch(p)

Spec == Init /\ [][Next]_vars

\* SpecScope: a parent store and a store built on it.  Definitions are built
\* (defineStore, add and addTransient of "f", createChild, the constructor
\* with a binding of "g") until the last store is finalized.  Factories
\* return objects with one teardown capability.
ScopeOutcomes == {o \in Outcomes : o.kind = "obj" /\ ~o.bad /\ Cardinality(o.caps) = 1}
Building == Len(stores) < MaxScopeStores
Undisposed == Len(disposals) < MaxScopeDisposals

NextScope ==
  \/ Building /\ DefineStore(1)
  \/ Building /\ \E n \in Names : Add(1, 1, n, "f")
  \/ Building /\ \E n \in Names : AddTransient(1, 1, n, "f")
  \/ Finalize(1) /\ Release
  \/ Building /\ \E s \in StoreIds : CreateChild(s, 1)
  \/ Building /\ \E n \in Names, p \in StoreIds : NewStoreDefinition(1, n, "g", p)
  \/ \E s \in StoreIds, n \in Names, out \in ScopeOutcomes : Get(s, n, out)
  \/ Undisposed /\ \E s \in StoreIds : Dispose(s)
  \/ Undisposed /\ \E s \in StoreIds : AsyncDispose(s)
  \/ \E d \in 1..Len(disposals), k \in 1..MaxVals, ok \in BOOLEAN : SettleTeardown(d, k, ok)

SpecScope == Init /\ [][NextScope]_vars

\* SpecBuild: the builder.  The caller keeps its definition handles, builds
\* on any of them at any time, finalizes them, builds on the stores it got,
\* and requests services whose factories return plain objects.
BuildOutcomes == {o \in Outcomes : o.kind = "obj" /\ o.caps = {} /\ ~o.bad}

NextBuild ==
  \/ \E j \in Handles : DefineStore(j)
  \/ \E i \in 1..Len(defs), j \in Handles, n \in Names : Add(i, j, n, "f")
  \/ \E i \in 1..Len(defs), j \in Handles, n \in Names : AddTransient(i, j, n, "f")
  \/ Building /\ \E i \in 1..Len(defs) : Finalize(i) /\ Retain
  \/ \E s \in StoreIds, j \in Handles : CreateChild(s, j)
  \/ ngets < MaxBuildGets /\ \E s \in StoreIds, n \in Names, out \in BuildOutcomes : Get(s, n, out)

SpecBuild == Init /\ [][NextBuild]_vars

\* SpecDispose: one store whose services are requested and which is then
\* disposed, synchronously or asynchronously.  Factories return objects with
\* any teardown capabilities, whose teardown may throw, or promises that are
\* fulfilled with such objects or rejected.
DisposeOutcomes ==
  {o \in Outcomes : o.kind # "throw" /\ (o.bad => o.caps # {})}

NextDispose ==
  \/ Building /\ DefineStore(1)
  \/ Building /\ \E n \in Names : Add(1, 1, n, "g")
  \/ Len(stores) < 1 /\ Finalize(1) /\ Release
  \/ ngets < MaxDisposeGets /\ \E n \in Names, out \in DisposeOutcomes : Get(1, n, out)
  \/ \E p \in 1..Len(heap), ok \in BOOLEAN, caps \in SUBSET Caps, bad \in BOOLEAN :
       (bad => caps # {}) /\ Settle(p, ok, caps, bad)
  \/ \E p \in 1..Len(heap) : RunThen(p)
  \/ \E p \in 1..Len(heap) : RunCatch(p)
  \/ Undisposed /\ Dispose(1)
  \/ Undisposed /\ AsyncDispose(1)
  \/ \E d \in 1..Len(disposals), k \in 1..MaxVals, ok \in BOOLEAN : SettleTeardown(d, k, ok)

SpecDispose == Init /\ [][NextDispose]_vars

\* SpecBranch: one base definition extended along two branches.  add and
\* addTransient put their result in either of the caller's two handles, and
\* every definition can be finalized while the caller keeps it.
BranchHandles == 1..(IF Len(defs) < MaxBranchDefs THEN Len(defs) + 1 ELSE MaxBranchDefs)

NextBranch ==
  \/ defs = <<>> /\ DefineStore(1)
  \/ \E i \in 1..Len(defs), j \in BranchHandles, n \in Names : Add(i, j, n, "f")
  \/ \E i \in 1..Len(defs), j \in BranchHandles, n \in Names : AddTransient(i, j, n, "f")
  \/ Building /\ \E i \in 1..Len(defs) : Finalize(i) /\ Retain

SpecBranch == Init /\ [][NextBranch]_vars

\* SpecSiblings: stores finalized from the same definition (the branching
\* test).  A definition is built in the caller's one handle, finalized any
\* number of times and rebuilt as the child definition of a store; the
\* services of the stores are requested; factories return plain objects.
NextSiblings ==
  \/ defs = <<>> /\ DefineStore(1)
  \/ \E n \in Names : Add(1, 1, n, "f")
  \/ \E n \in Names : AddTransient(1, 1, n, "f")
  \/ Finalize(1) /\ Retain
  \/ \E s \in StoreIds : CreateChild(s, 1)
  \/ ngets < MaxBranchGets /\ \E s \in StoreIds, n \in Names, out \in BuildOutcomes : Get(s, n, out)

SpecSiblings == Init /\ [][NextSiblings]_vars

\* SpecLookup: names are looked up, with has and get, on a parent store and
\* a store built on it, registered or not, "toString" among them; add is
\* offered the same names, and override the names add takes.  Factories
\* return plain objects.
Keys == Names \cup ProtoNames

NextLookup ==
  \/ Building /\ DefineStore(1)
  \/ Building /\ \E n \in Keys : Add(1, 1, n, "f")
  \/ Building /\ \E n \in Names : Override(1, 1, n, "g")
  \/ Finalize(1) /\ Release
  \/ Building /\ \E s \in StoreIds : CreateChild(s, 1)
  \/ \E s \in StoreIds, n \in Names, out \in BuildOutcomes : Get(s, n, out)
  \/ \E s \in StoreIds, n \in ProtoNames : GetInherited(s, n)
  \/ \E s \in StoreIds, n \in Keys : HasCall(s, n)

SpecLookup == Init /\ [][NextLookup]_vars

\* SpecRedispose: one store that is disposed more than once, synchronously
\* or asynchronously, with gets before, between and after the disposals.
\* Factories return objects with any teardown capabilities, whose teardown
\* may throw.
RedisposeOutcomes == {o \in Outcomes : o.kind = "obj" /\ (o.bad => o.caps # {})}

NextRedispose ==
  \/ Len(stores) < 1 /\ DefineStore(1)
  \/ Len(stores) < 1 /\ \E n \in Names : Add(1, 1, n, "g")
  \/ Len(stores) < 1 /\ Finalize(1) /\ Release
  \/ \E n \in Names, out \in RedisposeOutcomes : Get(1, n, out)
  \/ Dispose(1)
  \/ AsyncDispose(1)
  \/ \E d \in 1..Len(disposals), k \in 1..MaxVals, ok \in BOOLEAN : SettleTeardown(d, k, ok)

SpecRedispose == Init /\ [][NextRedispose]_vars

\* ---------------------------------------------------------------- notions
\* The binding of name n in store s, and how it was registered.
BindingOf(s, n) == stores[s].factories[n]
RegisteredWithAdd(s, n) == BindingOf(s, n).reg = "add"
RegisteredTransient(s, n) == BindingOf(s, n).reg = "addTransient"

\* The instance a returned handle yields: the object itself, or the object
\* the returned promise is fulfilled with (0 while there is none).
Instance(r) ==
  IF r.fresh THEN r.val
  ELSE IF heap[r.val].kind = "promise" THEN heap[r.val].res
  ELSE r.val

\* The values the factory of (s, n) returned (not the objects its promises
\* were fulfilled with).
Constructed(s, n) ==
  {v \in 1..Len(heap) :
     /\ heap[v].store = s /\ heap[v].name = n
     /\ ~\E p \in 1..Len(heap) : heap[p].res = v}

\* The step is a get(n) received by store s.
GetStep(s, n) == gets'[s][n] = gets[s][n] + 1

\* ---------------------------------------------------------------- claims
\* No construction of (s, n) has failed: no invocation threw, no promise the
\* factory returned was rejected.
ReturnsSuccessfully(s, n) == ~failed[s][n]

\* C1: for every binding registered with add whose factory returns
\* successfully, once get(name) has been called on the store (any number of
\* times) the factory has been invoked exactly once and all those gets
\* yielded one and the same instance.
C1_SingletonOnce ==
  \A s \in StoreIds, n \in Names :
    (RegisteredWithAdd(s, n) /\ ReturnsSuccessfully(s, n) /\ gets[s][n] >= 1)
      => /\ calls[s][n] = 1
         /\ \A r1, r2 \in rets[s][n] : Instance(r1) = Instance(r2)

\* C1 off the shared-function case: the same statement for the bindings
\* whose function object carries no transient tag.
C1_UntaggedSingletonOnce ==
  \A s \in StoreIds, n \in Names :
    (RegisteredWithAdd(s, n) /\ ~IsTransient(BindingOf(s, n).fn)
       /\ ReturnsSuccessfully(s, n) /\ gets[s][n] >= 1)
      => /\ calls[s][n] = 1
         /\ \A r1, r2 \in rets[s][n] : Instance(r1) = Instance(r2)

C1_UntaggedWitness ==
  \E s \in StoreIds, n \in Names :
    /\ RegisteredWithAdd(s, n) /\ ~IsTransient(BindingOf(s, n).fn)
    /\ ReturnsSuccessfully(s, n) /\ gets[s][n] >= 3 /\ calls[s][n] = 1

\* The pending promises the factory of (s, n) returned.
Pending(s, n) ==
  {p \in Constructed(s, n) : heap[p].kind = "promise" /\ heap[p].st = "pending"}

\* C2: for a binding registered with add whose factory returned a promise
\* that has not settled, every get(name) on the store returns that same
\* promise and does not invoke the factory.
C2_SharedPending ==
  [][\A s \in StoreIds, n \in Names, p \in 1..Len(heap) :
       (RegisteredWithAdd(s, n) /\ p \in Pending(s, n) /\ GetStep(s, n))
         => /\ last'.ret = Ret(p, FALSE)
            /\ calls'[s][n] = calls[s][n]]_vars

\* C2 off the shared-function case.
C2_UntaggedSharedPending ==
  [][\A s \in StoreIds, n \in Names, p \in 1..Len(heap) :
       (RegisteredWithAdd(s, n) /\ ~IsTransient(BindingOf(s, n).fn)
          /\ p \in Pending(s, n) /\ GetStep(s, n))
         => /\ last'.ret = Ret(p, FALSE)
            /\ calls'[s][n] = calls[s][n]]_vars

\* The rejected promises the singleton factory of (s, n) returned, whose
\* catch-reaction has run.
FailedAndCleared(s, n) ==
  {p \in Constructed(s, n) :
     heap[p].kind = "promise" /\ heap[p].st = "rejected" /\ heap[p].cont = "done"}

\* C3 (state part): once the rejection of a singleton construction has been
\* handled, the memo holds no entry for the failed promise.
C3_Cleared ==
  \A s \in StoreIds, n \in Names :
    RegisteredWithAdd(s, n) =>
      \A p \in FailedAndCleared(s, n) :
        ~\E i \in 1..Len(stores[s].memo) :
           stores[s].memo[i].name = n /\ stores[s].memo[i].value = p

\* C3 (step part): while the memo holds the promise of a construction that
\* has not succeeded, a get returns that very promise, so all its callers
\* observe the one rejection; a get that follows the removal invokes the
\* factory again and does not return the failed promise.
C3_Retry ==
  \A s \in StoreIds, n \in Names :
    (RegisteredWithAdd(s, n) /\ GetStep(s, n)) =>
      /\ \A p \in Constructed(s, n) :
           (/\ heap[p].kind = "promise" /\ heap[p].st # "fulfilled"
            /\ InMemo(stores[s].memo, n)
            /\ MemoEntry(stores[s].memo, n).value = p)
             => last'.ret = Ret(p, FALSE) /\ calls'[s][n] = calls[s][n]
      /\ (FailedAndCleared(s, n) # {} /\ ~InMemo(stores[s].memo, n))
           => /\ calls'[s][n] = calls[s][n] + 1
              /\ last'.ret.val \notin FailedAndCleared(s, n)

\* C3: when the asynchronous construction of a singleton fails, the callers
\* share the one failed promise, the memo entry is removed, and a later get
\* invokes the factory again.
C3_FailureClearsMemo == []C3_Cleared /\ [][C3_Retry]_vars

\* C3's case: after a failure was cleared, a later get constructed anew and
\* that construction succeeded.
C3_Witness ==
  \E s \in StoreIds, n \in Names :
    /\ RegisteredWithAdd(s, n) /\ ~IsTransient(BindingOf(s, n).fn)
    /\ FailedAndCleared(s, n) # {}
    /\ Cardinality(rets[s][n]) >= 2
    /\ \E e \in 1..Len(stores[s].memo) :
         stores[s].memo[e].name = n /\ stores[s].memo[e].promisify

\* C4: for every binding registered with addTransient, the factory has been
\* invoked once per get, every get that returned handed out the value that
\* invocation produced (all of them distinct), and the memo table has no
\* entry for the name.
C4_TransientEveryTime ==
  \A s \in StoreIds, n \in Names :
    RegisteredTransient(s, n) =>
      /\ calls[s][n] = gets[s][n]
      /\ rets[s][n] = {Ret(v, FALSE) : v \in Constructed(s, n)}
      /\ ~InMemo(stores[s].memo, n)

C4_Witness ==
  \E s \in StoreIds, n \in Names :
    /\ RegisteredTransient(s, n)
    /\ gets[s][n] = 3 /\ calls[s][n] = 3 /\ Cardinality(rets[s][n]) >= 2

\* The proper ancestors of store s.
RECURSIVE Ancestors(_)
Ancestors(s) ==
  IF stores[s].parent = 0 THEN {}
  ELSE {stores[s].parent} \cup Ancestors(stores[s].parent)

\* Store c binds n itself although a store of its parent chain binds n too.
Shadows(c, n) ==
  /\ stores[c].parent # 0
  /\ InFactories(stores[c].factories, n)
  /\ Has(stores[c].parent, n)

\* C5 (state part): where a child store shadows a name, every get on the
\* child returned a value the child's own factory constructed, a singleton
\* child binding is constructed once and memoized in the child, and nothing
\* the parent chain returned or memoized for the name comes from the child.
C5_ChildAnswers ==
  \A c \in StoreIds, n \in Names :
    Shadows(c, n) =>
      /\ \A r \in rets[c][n] :
           heap[r.val].store = c /\ heap[r.val].fn = BindingOf(c, n).fn
      /\ (~IsTransient(BindingOf(c, n).fn) /\ ReturnsSuccessfully(c, n)
            /\ rets[c][n] # {})
           => /\ InMemo(stores[c].memo, n)
              /\ MemoEntry(stores[c].memo, n).value \in Constructed(c, n)
              /\ calls[c][n] = 1
      /\ \A p \in Ancestors(c) :
           /\ \A r \in rets[p][n] : heap[r.val].store # c
           /\ \A i \in 1..Len(stores[p].memo) : heap[stores[p].memo[i].value].store # c

\* C5 (step part): a get of a shadowed name on the child leaves the stores
\* of its parent chain as they were: no get reaches them, no factory of
\* theirs runs, their memo is unchanged.
C5_ParentUntouched ==
  \A c \in StoreIds, n \in Names :
    (Shadows(c, n) /\ GetStep(c, n)) =>
      \A p \in Ancestors(c) :
        /\ gets'[p] = gets[p]
        /\ calls'[p] = calls[p]
        /\ stores'[p] = stores[p]

\* C5: local shadowing: the child's binding of a name its parent also binds
\* answers the gets made on the child, and the parent's resolution of the
\* name is unaffected.
C5_LocalShadowing == []C5_ChildAnswers /\ [][C5_ParentUntouched]_vars

\* C5's case: a shadowed name was requested twice on the child and once on
\* the parent, and each store holds its own instance.
C5_Witness ==
  \E c \in StoreIds, n \in Names :
    /\ Shadows(c, n)
    /\ gets[c][n] >= 2 /\ calls[c][n] = 1
    /\ gets[stores[c].parent][n] = 1
    /\ InMemo(stores[c].memo, n) /\ InMemo(stores[stores[c].parent].memo, n)
    /\ MemoEntry(stores[c].memo, n).value
         # MemoEntry(stores[stores[c].parent].memo, n).value

\* Teardown calls a disposal made: the values its loop called a teardown on.
TornDown(d) ==
  {d.log[i].val : i \in {k \in 1..Len(d.log) : d.log[k].act \in {"dispose", "asyncDispose"}}}

\* C7: a value obtained through child.get(name) for a name only an ancestor
\* binds was constructed by that ancestor; every memo entry of every store
\* holds a value that store itself constructed; and a disposal (synchronous
\* or asynchronous) calls teardown only on values of the disposed store, so
\* a value of another store that was torn down was torn down by a disposal of
\* its own store.
C7_DisposalScoped ==
  /\ \A c \in StoreIds, n \in Names :
       (~InFactories(stores[c].factories, n) /\ rets[c][n] # {})
         => \A r \in rets[c][n] : heap[r.val].store \in Ancestors(c)
  /\ \A s \in StoreIds :
       \A i \in 1..Len(stores[s].memo) : heap[stores[s].memo[i].value].store = s
  /\ \A k \in 1..Len(disposals) :
       \A v \in TornDown(disposals[k]) : heap[v].store = disposals[k].store
  /\ \A v \in 1..Len(heap) :
       (heap[v].nd + heap[v].nad > 0)
         => \E k \in 1..Len(disposals) : disposals[k].store = heap[v].store

\* C7's case: the child resolved a parent binding to a value with a teardown
\* capability, resolved a binding of its own, and was disposed: its own
\* value was torn down and the parent's was not.
C7_Witness ==
  \E k \in 1..Len(disposals), n \in Names :
    LET c == disposals[k].store IN
    /\ stores[c].parent # 0
    /\ ~InFactories(stores[c].factories, n)
    /\ \E r \in rets[c][n] :
         /\ heap[r.val].store = stores[c].parent
         /\ heap[r.val].caps # {}
         /\ heap[r.val].nd = 0 /\ heap[r.val].nad = 0
    /\ TornDown(disposals[k]) # {}

\* The step is add or addTransient of name n on the definition in handle i.
AddStep(i, n) ==
  /\ last'.op \in {"add", "addTransient"}
  /\ last'.a = i /\ last'.n = n
  /\ last' # last

\* The lifecycle kind the binding of n in definition d has for a store.
KindOf(d, n, tags) == IF tags[d.factories[n].fn] THEN "transient" ELSE "singleton"

\* C6 without the part on the bindings' kind: add and addTransient of a name
\* bound in the definition or in its parent chain throw DuplicateBinding,
\* return no definition (the caller's handles are as before) and invoke no
\* factory.
C6_Rejects ==
  \A i \in 1..Len(defs), n \in Names :
    (AddStep(i, n) /\ (InFactories(defs[i].factories, n) \/ ParentHas(defs[i].parent, n)))
      => /\ last'.err = "DuplicateBinding"
         /\ defs' = defs
         /\ calls' = calls /\ heap' = heap /\ stores' = stores

C6_DuplicateRejected == [][C6_Rejects]_vars

\* C6: as C6_Rejects, and the receiver's bindings are unchanged: each still
\* maps its name to the same factory with the same lifecycle kind.
C6_DuplicateLeavesBindings ==
  [][/\ C6_Rejects
     /\ \A i \in 1..Len(defs), n \in Names :
          (AddStep(i, n) /\ last'.err = "DuplicateBinding")
            => \A m \in Names :
                 InFactories(defs[i].factories, m)
                   => KindOf(defs'[i], m, transient') = KindOf(defs[i], m, transient)]_vars

\* C6_Rejects' case: an add was rejected for a name only the parent chain of
\* the definition binds.
C6_Witness ==
  /\ last.op \in {"add", "addTransient"} /\ last.err = "DuplicateBinding"
  /\ last.a \in 1..Len(defs)
  /\ ~InFactories(defs[last.a].factories, last.n)
  /\ ParentHas(defs[last.a].parent, last.n)

\* The step is a disposal call.
DisposeStep == Len(disposals') = Len(disposals) + 1

\* C8: a disposal (synchronous or asynchronous) visits only values a get on
\* the disposed store materialized and invokes no factory: every entry of
\* its loop is for a name get was called for on that store and holds a value
\* that store constructed; and a binding get was never called for has no
\* factory invocation and no value, so nothing of it is torn down.
C8_Materialized ==
  /\ \A k \in 1..Len(disposals) :
       \A i \in 1..Len(disposals[k].log) :
         LET e == disposals[k].log[i] IN
         /\ gets[disposals[k].store][e.name] >= 1
         /\ heap[e.val].store = disposals[k].store
         /\ heap[e.val].name = e.name
  /\ \A s \in StoreIds, n \in Names :
       (InFactories(stores[s].factories, n) /\ gets[s][n] = 0)
         => /\ calls[s][n] = 0
            /\ \A v \in 1..Len(heap) : ~(heap[v].store = s /\ heap[v].name = n)

C8_NoFactoryRuns == DisposeStep => (calls' = calls /\ Len(heap') = Len(heap))

C8_OnlyMaterialized == []C8_Materialized /\ [][C8_NoFactoryRuns]_vars

\* C8's case: of two declared bindings one was requested; the store was
\* disposed and tore that one value down.
C8_Witness ==
  \E k \in 1..Len(disposals), n \in Names :
    LET s == disposals[k].store IN
    /\ InFactories(stores[s].factories, n) /\ gets[s][n] = 0
    /\ TornDown(disposals[k]) # {}

\* What the loop of disposal d met at entry i.
CapsAt(d, i) == heap[d.log[i].val].caps
BadAt(d, i) == heap[d.log[i].val].bad
AsyncOnly(d, i) == CapsAt(d, i) = {"asyncDispose"}
SyncDisposals == {k \in 1..Len(disposals) : disposals[k].kind = "sync"}
AsyncDisposals == {k \in 1..Len(disposals) : disposals[k].kind = "async"}

RaisesAt(d, i) == AsyncOnly(d, i) \/ ("dispose" \in CapsAt(d, i) /\ BadAt(d, i))
FirstRaise(d) ==
  IF \E i \in 1..Len(d.log) : RaisesAt(d, i)
  THEN CHOOSE i \in 1..Len(d.log) :
         RaisesAt(d, i) /\ \A j \in 1..(i - 1) : ~RaisesAt(d, j)
  ELSE 0

AsyncChoice(d, i) ==
  IF "asyncDispose" \in CapsAt(d, i) THEN "asyncDispose"
  ELSE IF "dispose" \in CapsAt(d, i) THEN "dispose"
  ELSE "skip"

\* The disposal awaits the asynchronous teardown of entry i: the promise
\* that teardown returned is among those handed to Promise.all.
Awaited(d, i) == \E j \in 1..Len(d.tds) : d.tds[j].val = d.log[i].val

\* C10 as stated: an asynchronous disposal tears every materialized value
\* down through the one capability it prefers, has started the asynchronous
\* teardown of every value that has one by the time it awaits, and is
\* fulfilled only when all of them are.
C10_AsyncTearsDownAll ==
  \A k \in AsyncDisposals :
    LET d == disposals[k] IN
    /\ \A i \in 1..Len(d.log) :
         CapsAt(d, i) # {} => d.log[i].act = AsyncChoice(d, i)
    /\ \A i \in 1..Len(d.log) :
         ("asyncDispose" \in CapsAt(d, i) /\ ~BadAt(d, i)) => Awaited(d, i)
    /\ d.status = "fulfilled" => \A j \in 1..Len(d.tds) : d.tds[j].st = "fulfilled"

\* C10 where no teardown throws: the same for the disposals whose store held
\* no value with a throwing teardown.
C10_NoThrowTearsDownAll ==
  \A k \in AsyncDisposals :
    LET d == disposals[k] IN
    (\A i \in 1..Len(d.log) : ~BadAt(d, i)) =>
      /\ \A i \in 1..Len(d.log) :
         CapsAt(d, i) # {} => d.log[i].act = AsyncChoice(d, i)
      /\ \A i \in 1..Len(d.log) :
         ("asyncDispose" \in CapsAt(d, i) /\ ~BadAt(d, i)) => Awaited(d, i)
      /\ d.status = "fulfilled" => \A j \in 1..Len(d.tds) : d.tds[j].st = "fulfilled"

\* The step is a successful add or addTransient of name n on the definition
\* in handle i whose result the caller put in handle j.
Extends(i, j, n) ==
  /\ AddStep(i, n) /\ last'.err = "none"
  /\ j \in 1..Len(defs')
  /\ InFactories(defs'[j].factories, n)
  /\ \A m \in Names \ {n} : defs'[j].factories[m] = defs[i].factories[m]
  /\ defs'[j].parent = defs[i].parent

\* C11 without the lifecycle kinds: a successful add or addTransient returns
\* a new definition (the receiver's bindings plus the new name, the same
\* parent) and leaves every definition the caller still holds, the receiver
\* included, with the same names, factories and parent; the stores finalized
\* before keep their names, so a store of one branch never has a name added
\* on another.
C11_Frame ==
  \A i \in 1..Len(defs), n \in Names :
    (AddStep(i, n) /\ last'.err = "none") =>
      /\ \E j \in 1..Len(defs') :
           /\ Extends(i, j, n)
           /\ \A k \in 1..Len(defs) \ {j} : defs'[k] = defs[k]
      /\ stores' = stores

C11_NamesUnchanged == [][C11_Frame]_vars

\* C11: StoreDefinition is immutable: as C11_Frame, and every binding of a
\* definition the caller still holds, and of a store finalized before, keeps
\* its lifecycle kind over the add or addTransient.
C11_Immutable ==
  [][/\ C11_Frame
     /\ \A i \in 1..Len(defs), j \in 1..Len(defs'), n \in Names :
          Extends(i, j, n) =>
            /\ \A k \in 1..Len(defs) \ {j}, m \in Names :
                 InFactories(defs[k].factories, m)
                   => KindOf(defs'[k], m, transient') = KindOf(defs[k], m, transient)
            /\ \A s \in StoreIds, m \in Names :
                 InFactories(stores[s].factories, m)
                   => KindOf(stores'[s], m, transient') = KindOf(stores[s], m, transient)]_vars

\* C11_Frame's case: the caller holds two definitions extended from the same
\* base with different names, and a store finalized from one of them has the
\* name of its branch only.
C11_Witness ==
  /\ Len(defs) = 2
  /\ InFactories(defs[1].factories, "A") /\ ~InFactories(defs[1].factories, "B")
  /\ InFactories(defs[2].factories, "B") /\ ~InFactories(defs[2].factories, "A")
  /\ \E s \in StoreIds : Has(s, "A") /\ ~Has(s, "B")

\* The nearest store, from s up its parent chain, that binds n (0: none).
RECURSIVE Binder(_, _)
Binder(s, n) ==
  IF s = 0 THEN 0
  ELSE IF InFactories(stores[s].factories, n) THEN s
  ELSE Binder(stores[s].parent, n)

\* The step is a finalize call.
FinalizeStep == Len(stores') = Len(stores) + 1

\* C12 (step part): finalize invokes no factory and constructs nothing, the
\* store it returns has an empty memo and the bindings and parent of a
\* definition the caller holds, and the stores that exist are as before.
C12_FinalizeFresh ==
  FinalizeStep =>
    /\ calls' = calls /\ heap' = heap
    /\ stores'[Len(stores')].memo = <<>>
    /\ \E i \in 1..Len(defs) :
         /\ stores'[Len(stores')].factories = defs[i].factories
         /\ stores'[Len(stores')].parent = defs[i].parent
    /\ \A s \in StoreIds : stores'[s] = stores[s]

\* C12 (step part): a get changes the memo of the store that binds the name
\* and runs that store's factory only; no other store is populated.
C12_GetLocal ==
  \A s \in StoreIds, n \in Names :
    GetStep(s, n) =>
      \A t \in StoreIds \ {Binder(s, n)} :
        stores'[t] = stores[t] /\ calls'[t] = calls[t]

\* C12 (state part) for the bindings B: every memo holds only values its own
\* store constructed, every value a get returned was constructed by the
\* store that binds the name, and the factory of a binding in B has run at
\* most once in its store however many stores requested it.
C12_Independent(B(_, _)) ==
  /\ \A s \in StoreIds : \A i \in 1..Len(stores[s].memo) :
       heap[stores[s].memo[i].value].store = s
  /\ \A s \in StoreIds, n \in Names : \A r \in rets[s][n] :
       heap[r.val].store = Binder(s, n)
  /\ \A s \in StoreIds, n \in Names :
       (InFactories(stores[s].factories, n) /\ B(s, n))
         => /\ calls[s][n] <= 1
            /\ \A c \in StoreIds : Binder(c, n) = s =>
                 \A r \in rets[c][n] : InMemo(stores[s].memo, n)
                    /\ r.val = MemoEntry(stores[s].memo, n).value

\* C12: finalize runs no factory and yields independent stores with the same
\* parent; a singleton (a binding registered with add) is constructed once
\* per store that binds it: once in each sibling for a child-local one, once
\* in the parent for one requested through the siblings.
C12_SiblingsIndependent ==
  /\ []C12_Independent(RegisteredWithAdd)
  /\ [][C12_FinalizeFresh /\ C12_GetLocal]_vars

\* C12 for the bindings whose function was never passed to addTransient.
Untagged(s, n) == RegisteredWithAdd(s, n) /\ ~IsTransient(BindingOf(s, n).fn)
C12_UntaggedSiblingsIndependent ==
  /\ []C12_Independent(Untagged)
  /\ [][C12_FinalizeFresh /\ C12_GetLocal]_vars

\* C12's case: two stores finalized from the same child definition each
\* requested the parent's singleton, which the parent constructed once.
C12_UntaggedWitness ==
  \E p, c1, c2 \in StoreIds, n \in Names :
    /\ c1 # c2 /\ stores[c1].parent = p /\ stores[c2].parent = p
    /\ stores[c1].factories = stores[c2].factories
    /\ Untagged(p, n)
    /\ gets[c1][n] = 1 /\ gets[c2][n] = 1 /\ calls[p][n] = 1

\* Name n is bound in the local bindings of store s or of an ancestor: a
\* factory was registered for it.
RECURSIVE Registered(_, _)
Registered(s, n) ==
  IF s = 0 THEN FALSE
  ELSE (n \in Names /\ stores[s].factories[n].fn # "none")
         \/ Registered(stores[s].parent, n)

\* The step is a has(n) or a get(n) on store s.
HasStep(s, n) == last'.op = "has" /\ last'.a = s /\ last'.n = n /\ last' # last
LookupStep(s, n) ==
  IF n \in Names THEN GetStep(s, n)
  ELSE last'.op = "get" /\ last'.a = s /\ last'.n = n /\ ngets' = ngets + 1

\* C13 for the names K: get(n) fails with UnknownBinding exactly when n is
\* bound neither locally nor in an ancestor, has(n) answers whether it is
\* bound, and has and a failing get invoke no factory, construct nothing and
\* leave every memo as it was.
C13_Lookup(K) ==
  \A s \in StoreIds, n \in K :
    /\ LookupStep(s, n) =>
         /\ last'.err = "UnknownBinding" <=> ~Registered(s, n)
         /\ last'.err = "UnknownBinding"
              => calls' = calls /\ heap' = heap /\ stores' = stores
    /\ HasStep(s, n) =>
         /\ last'.yes <=> Registered(s, n)
         /\ calls' = calls /\ heap' = heap /\ stores' = stores

\* C13: unknown names fail, whatever the name.
C13_UnknownFails == [][C13_Lookup(Keys)]_vars

\* C13 for the names that are not keys of Object.prototype.
C13_OwnNamesUnknownFails == [][C13_Lookup(Names)]_vars

\* C13_OwnNamesUnknownFails' case: a get on a child store failed for a name
\* neither it nor its parent binds, while the parent binds another name.
C13_OwnNamesWitness ==
  /\ last.op = "get" /\ last.err = "UnknownBinding"
  /\ \E c \in StoreIds, n \in Names, m \in Names :
       /\ stores[c].parent # 0
       /\ gets[c][n] >= 1 /\ ~Registered(c, n)
       /\ Registered(stores[c].parent, m) /\ calls[stores[c].parent][m] = 1

\* Name n is registered in definition d or in its parent chain.
RegisteredIn(d, n) == d.factories[n].fn # "none" \/ Registered(d.parent, n)

\* The step is an override of name n on the definition in handle i.
OverrideStep(i, n) ==
  last'.op = "override" /\ last'.a = i /\ last'.n = n /\ last' # last

\* C14: override(name, factory) of a name registered in the definition or in
\* its parent chain returns a definition that binds the name to another
\* factory and is otherwise the receiver; of a name never registered it
\* fails with UnknownBinding.
C14_Override ==
  [][\A i \in 1..Len(defs), n \in Names :
       OverrideStep(i, n) =>
         IF RegisteredIn(defs[i], n)
         THEN /\ last'.err = "none"
              /\ \E j \in 1..Len(defs') :
                   /\ defs'[j].factories[n].fn # "none"
                   /\ defs'[j].factories[n] # defs[i].factories[n]
                   /\ \A m \in Names \ {n} : defs'[j].factories[m] = defs[i].factories[m]
                   /\ defs'[j].parent = defs[i].parent
         ELSE last'.err = "UnknownBinding"]_vars

\* The memo state of name n in store m (a memo, before or after the step):
\* Unconstructed (no entry), Pending (the entry is the promise the factory
\* returned), Settled (the entry is a resolved marker, or a value that is
\* not a promise).
MemoState(m, n) ==
  IF ~InMemo(m, n) THEN "Unconstructed"
  ELSE IF MemoEntry(m, n).promisify THEN "Settled"
  ELSE IF heap'[MemoEntry(m, n).value].kind = "promise" THEN "Pending"
  ELSE "Settled"

AsyncTransitions ==
  {<<"Unconstructed", "Pending">>, <<"Pending", "Settled">>, <<"Pending", "Unconstructed">>}

\* Settled is absorbing: a Settled entry is never replaced, the factory is
\* not invoked again, and a get on a resolved marker returns a fresh promise
\* already resolved with the cached value.
SettledAbsorbs(s, n) ==
  MemoState(stores[s].memo, n) = "Settled" =>
    /\ MemoEntry(stores'[s].memo, n) = MemoEntry(stores[s].memo, n)
    /\ calls'[s][n] = calls[s][n]
    /\ (GetStep(s, n) /\ MemoEntry(stores[s].memo, n).promisify)
         => last'.ret = Ret(MemoEntry(stores[s].memo, n).value, TRUE)

\* The value a promise of the factory was fulfilled with is only ever
\* memoized as a resolved marker.
MarkedWhenResolved ==
  \A s \in StoreIds : \A i \in 1..Len(stores[s].memo) :
    (\E p \in 1..Len(heap) : heap[p].res = stores[s].memo[i].value)
      => stores[s].memo[i].promisify

\* The step touches name n of store s: its memo, its gets or its factory.
Touches(s, n) ==
  \/ stores'[s].memo # stores[s].memo
  \/ gets'[s][n] # gets[s][n]
  \/ calls'[s][n] # calls[s][n]

\* C15 as stated: per store and name the memo only moves Unconstructed ->
\* Pending, Pending -> Settled and Pending -> Unconstructed, and Settled is
\* absorbing.
C15_Moves ==
  \A s \in StoreIds, n \in Names :
    Touches(s, n) =>
      /\ \/ MemoState(stores'[s].memo, n) = MemoState(stores[s].memo, n)
         \/ <<MemoState(stores[s].memo, n), MemoState(stores'[s].memo, n)>>
              \in AsyncTransitions
      /\ SettledAbsorbs(s, n)

C15_MemoTransitions == []MarkedWhenResolved /\ [][C15_Moves]_vars

\* C15 amended: the same, and Unconstructed -> Settled in the one step of a
\* get whose factory returned a value that is not a promise.
C15_MovesWithSync ==
  \A s \in StoreIds, n \in Names :
    Touches(s, n) =>
      /\ \/ MemoState(stores'[s].memo, n) = MemoState(stores[s].memo, n)
         \/ <<MemoState(stores[s].memo, n), MemoState(stores'[s].memo, n)>>
              \in AsyncTransitions
         \/ /\ MemoState(stores[s].memo, n) = "Unconstructed"
            /\ MemoState(stores'[s].memo, n) = "Settled"
            /\ GetStep(s, n) /\ calls'[s][n] = calls[s][n] + 1
            /\ ~MemoEntry(stores'[s].memo, n).promisify
      /\ SettledAbsorbs(s, n)

C15_MemoTransitionsWithSync == []MarkedWhenResolved /\ [][C15_MovesWithSync]_vars

\* C15's case: a construction failed and was cleared, the retry was
\* fulfilled, the memo holds its resolved marker and a later get returned a
\* fresh promise resolved with the cached value.
C15_Witness ==
  \E s \in StoreIds, n \in Names :
    /\ FailedAndCleared(s, n) # {}
    /\ InMemo(stores[s].memo, n) /\ MemoEntry(stores[s].memo, n).promisify
    /\ Ret(MemoEntry(stores[s].memo, n).value, TRUE) \in rets[s][n]
    /\ calls[s][n] = 2

\* The failed constructions of (s, n) whose rejection has reached the
\* callers.  Reactions run in the order they were registered, and get
\* registers its then-reaction before it returns the promise: a caller's
\* rejection handler runs after that reaction has passed the rejection on
\* (cont = "catch") and before the catch-reaction it queued.
Delivered(s, n) ==
  {p \in Constructed(s, n) :
     /\ heap[p].kind = "promise" /\ heap[p].st = "rejected"
     /\ heap[p].cont \in {"catch", "done"}}

\* No construction newer than p is memoized for (s, n).
NoNewer(s, n, p) ==
  ~InMemo(stores[s].memo, n) \/ MemoEntry(stores[s].memo, n).value = p

\* C16 for the failed constructions D: a get issued after such a failure,
\* and before any retry, invokes the factory again and does not return the
\* failed promise.
C16_Reattempts(D(_, _)) ==
  \A s \in StoreIds, n \in Names :
    (RegisteredWithAdd(s, n) /\ GetStep(s, n)) =>
      \A p \in D(s, n) :
        NoNewer(s, n, p) =>
          /\ calls'[s][n] = calls[s][n] + 1
          /\ last'.ret # Ret(p, FALSE)

\* C16: no get issued after the rejection was delivered to a caller returns
\* the failed computation.
C16_NoFailedAfterDelivery == [][C16_Reattempts(Delivered)]_vars

\* C16 from the run of the catch-reaction on.
C16_NoFailedAfterCleared == [][C16_Reattempts(FailedAndCleared)]_vars

\* The teardown of every value of disposal d that has a capability has been
\* invoked.
AllAttempted(d) ==
  \A i \in 1..Len(d.log) :
    CapsAt(d, i) # {} => d.log[i].act \in {"dispose", "asyncDispose"}

\* C17: when an asynchronous disposal fails, whether an asynchronous
\* teardown rejected or a synchronous teardown threw during the pass, the
\* teardown of every materialized value has been invoked.
C17_FailsAfterAllAttempted ==
  \A k \in AsyncDisposals :
    disposals[k].status = "rejected" => AllAttempted(disposals[k])

\* C17 for the failures by rejection: an asynchronous disposal in which no
\* teardown threw synchronously, and which failed because a teardown promise
\* was rejected, has invoked every teardown.
C17_RejectionAfterAllAttempted ==
  \A k \in AsyncDisposals :
    LET d == disposals[k] IN
    (d.status = "rejected" /\ \A i \in 1..Len(d.log) : ~BadAt(d, i))
      => AllAttempted(d)

\* C17_RejectionAfterAllAttempted's case: of two asynchronous teardowns one
\* was rejected, the disposal failed, and both had been invoked.
C17_RejectionWitness ==
  \E k \in AsyncDisposals :
    LET d == disposals[k] IN
    /\ d.status = "rejected" /\ Len(d.tds) = 2
    /\ d.tds[1].st = "rejected" /\ d.tds[2].st = "pending"
    /\ heap[d.tds[2].val].nad = 1

\* C18 (state part): every binding registered with add, in a definition the
\* caller holds or in a store, has the lifecycle kind singleton.
C18_AddIsSingleton ==
  /\ \A i \in 1..Len(defs), n \in Names :
       defs[i].factories[n].reg = "add" => KindOf(defs[i], n, transient) = "singleton"
  /\ \A s \in StoreIds, n \in Names :
       RegisteredWithAdd(s, n) => KindOf(stores[s], n, transient) = "singleton"

\* C18 (step part): a get that invokes the factory of a binding registered
\* with add, and gets a value from it, memoizes that value.
C18_AddMemoizes ==
  \A s \in StoreIds, n \in Names :
    (/\ RegisteredWithAdd(s, n) /\ GetStep(s, n)
     /\ calls'[s][n] = calls[s][n] + 1 /\ last'.err = "none")
      => /\ InMemo(stores'[s].memo, n)
         /\ MemoEntry(stores'[s].memo, n).value = last'.ret.val

\* C18: the lifecycle kind belongs to the binding: a binding registered with
\* add stays a memoized singleton whatever is done with its factory function
\* afterwards.
C18_KindOfBinding == []C18_AddIsSingleton /\ [][C18_AddMemoizes]_vars

\* Store s has been disposed.
Disposed(s) == \E k \in 1..Len(disposals) : disposals[k].store = s

\* C19 (step part): a disposal leaves every memo as it was; a get of a
\* memoized name on a disposed store returns the memoized instance, invokes
\* no factory and leaves the memo alone.
C19_MemoKept ==
  /\ DisposeStep => stores' = stores
  /\ \A s \in StoreIds, n \in Names :
       (GetStep(s, n) /\ Disposed(s) /\ InMemo(stores[s].memo, n)) =>
         /\ last'.ret = MemoizedRet(MemoEntry(stores[s].memo, n))
         /\ calls' = calls /\ stores' = stores /\ Len(heap') = Len(heap)

\* C19 (state part): a later disposal of the same store meets every entry
\* an earlier one met, in the same place and with the same value, and where
\* its loop gets that far it invokes the teardown again: through the same
\* capability when the two disposals are of the same kind, and through the
\* capability its kind uses otherwise (a synchronous disposal raises at a
\* value that has the asynchronous capability only).
C19_TornDownAgain ==
  \A k1, k2 \in 1..Len(disposals) :
    (k1 < k2 /\ disposals[k1].store = disposals[k2].store) =>
      LET d1 == disposals[k1]
          d2 == disposals[k2]
      IN
      \A i \in 1..Len(d1.log) :
        /\ i <= Len(d2.log)
        /\ d2.log[i].name = d1.log[i].name /\ d2.log[i].val = d1.log[i].val
        /\ (d1.log[i].act \in {"dispose", "asyncDispose"} /\ d2.log[i].act # "unreached")
             => /\ d2.log[i].act \in {"dispose", "asyncDispose", "raise"}
                /\ d2.kind = d1.kind => d2.log[i].act = d1.log[i].act
                /\ d2.log[i].act = "raise" => (d2.kind = "sync" /\ AsyncOnly(d2, i))
                /\ heap[d1.log[i].val].nd + heap[d1.log[i].val].nad
                     >= IF d2.log[i].act = "raise" THEN 1 ELSE 2

Unsettled(d, i) == heap[d.log[i].val].kind = "promise"

\* C20: a disposal (synchronous or asynchronous) calls no teardown on an
\* entry whose construction is not memoized as settled, and never on the
\* value that construction produces later; such an entry makes the disposal
\* neither fail nor wait: a disposal that met only such entries returned (or
\* was fulfilled) at once, and the teardowns an asynchronous disposal awaits
\* are those of settled values only.
C20_PendingLeftAlone ==
  \A k \in 1..Len(disposals) :
    LET d == disposals[k] IN
    /\ \A i \in 1..Len(d.log) :
         Unsettled(d, i) =>
           /\ d.log[i].act \in {"skip", "unreached"}
           /\ heap[d.log[i].val].res \notin TornDown(d)
           /\ d.log[i].val \notin TornDown(d)
    /\ (\A i \in 1..Len(d.log) : Unsettled(d, i))
         => /\ d.err = "none" /\ d.tds = <<>>
            /\ d.status = IF d.kind = "sync" THEN "returned" ELSE "fulfilled"
    /\ \A j \in 1..Len(d.tds) : heap[d.tds[j].val].kind = "obj"

\* C20's case: a disposal ran while a construction was pending and returned;
\* the construction was then fulfilled with a value that has a teardown
\* capability, the memo holds its resolved marker, and the value has not
\* been torn down.
C20_Witness ==
  \E k \in 1..Len(disposals) :
    LET d == disposals[k] IN
    \E i \in 1..Len(d.log) :
      LET p == d.log[i].val IN
      /\ Unsettled(d, i) /\ d.err = "none"
      /\ heap[p].st = "fulfilled" /\ heap[p].cont = "done"
      /\ heap[heap[p].res].caps # {}
      /\ heap[heap[p].res].nd = 0 /\ heap[heap[p].res].nad = 0
      /\ MemoEntry(stores[d.store].memo, heap[p].name).promisify

====
